---- MODULE Spec2Model ----
(***************************************************************************)
(* Model of edgelet/iothubservice/src/device.rs: DeviceClient, the module  *)
(* resource client bound to one device id, on top of the generic           *)
(* Client::request.                                                        *)
(*                                                                         *)
(* Strings that the code inspects (device and module ids) are sequences of *)
(* one-character strings; a path is the concatenation format! produces.    *)
(* Option<T> is a sequence of length 0 (None) or 1 (Some).                 *)
(***************************************************************************)
EXTENDS Naturals, Sequences, FiniteSets

VARIABLES
    created,    \* the last call of DeviceClient::new: its argument and result
    device_id,  \* the field DeviceClient.device_id; NoClient before construction
    ops,        \* the invocations made on the client, in the order issued
    sent        \* the number of requests handed to the transport so far

vars == <<created, device_id, ops, sent>>

\* The number of operations the caller issues on one client.
MaxOps == 2

----------------------------------------------------------------------------
\* Option and Result values.

None == <<>>
Some(v) == <<v>>
IsSome(o) == Len(o) = 1
Unwrap(o) == o[1]

Ok(v) == [ok |-> TRUE, v |-> v]
Err(e) == [ok |-> FALSE, e |-> e]
Pending == [pending |-> TRUE]
IsOk(r) == "ok" \in DOMAIN r /\ r.ok
IsErr(r) == "ok" \in DOMAIN r /\ ~r.ok
Unit == "()"

\* Error kinds (error::ErrorKind, by discriminant).
ArgumentEmpty == "Utils(ArgumentEmpty)"
EmptyResponse == "EmptyResponse"
HyperError == "Hyper"
HttpError == "Http"
SerdeError == "Serde"

NoClient == [none |-> TRUE]

----------------------------------------------------------------------------
\* Strings the code inspects.

WhiteSpace == {" ", "\t"}

\* str::trim: the string without its leading and trailing white space.
RECURSIVE TrimStart(_)
TrimStart(s) ==
    IF s # <<>> /\ Head(s) \in WhiteSpace THEN TrimStart(Tail(s)) ELSE s

RECURSIVE TrimEnd(_)
TrimEnd(s) ==
    IF s # <<>> /\ s[Len(s)] \in WhiteSpace
        THEN TrimEnd(SubSeq(s, 1, Len(s) - 1))
        ELSE s

Trim(s) == TrimEnd(TrimStart(s))

\* ensure_not_empty!(val): Err(ArgumentEmpty) when val.trim() is empty,
\* otherwise val itself (not trimmed).
ensure_not_empty(val) ==
    IF Trim(val) = <<>> THEN Err(ArgumentEmpty) ELSE Ok(val)

\* The ids the caller passes: empty, white space only, plain, and padded.
DeviceIds == { <<>>, <<" ">>, <<"d", "1">>, <<" ", "d">> }
ModuleIds == { <<>>, <<"\t", " ">>, <<"m", "1">>, <<"m", " ">> }

----------------------------------------------------------------------------
\* model::Module, model::AuthMechanism, model::SymmetricKey: every field is
\* optional and a with_x builder sets one field.

ModuleDefault ==
    [device_id |-> None, module_id |-> None, generation_id |-> None,
     managed_by |-> None, authentication |-> None]

with_device_id(module, v) == [module EXCEPT !.device_id = Some(v)]
with_module_id(module, v) == [module EXCEPT !.module_id = Some(v)]
with_generation_id(module, v) == [module EXCEPT !.generation_id = Some(v)]
with_managed_by(module, v) == [module EXCEPT !.managed_by = Some(v)]
with_authentication(module, v) == [module EXCEPT !.authentication = Some(v)]

AuthMechanismDefault == [type |-> None, symmetric_key |-> None]

\* The mechanism of the tests: type sas, keys "pkey" / "skey".
SasAuth ==
    [type |-> Some("sas"),
     symmetric_key |-> Some([primary_key |-> Some("pkey"),
                             secondary_key |-> Some("skey")])]

\* What the caller passes as `authentication`.
Authentications == { None, Some(SasAuth) }

----------------------------------------------------------------------------
\* JSON.  An object is a function from the member names present to their
\* values; serialization leaves out a field that is None, deserialization
\* reads a missing member as None.

\* The member names of each struct (serde renames) and the struct held by
\* a field, "String" for a plain string.
FieldNames(struct) ==
    CASE struct = "Module" ->
            [device_id |-> "deviceId", module_id |-> "moduleId",
             generation_id |-> "generationId", managed_by |-> "managedBy",
             authentication |-> "authentication"]
      [] struct = "AuthMechanism" ->
            [type |-> "type", symmetric_key |-> "symmetricKey"]
      [] struct = "SymmetricKey" ->
            [primary_key |-> "primaryKey", secondary_key |-> "secondaryKey"]

FieldType(struct, f) ==
    CASE struct = "Module" /\ f = "authentication" -> "AuthMechanism"
      [] struct = "AuthMechanism" /\ f = "symmetric_key" -> "SymmetricKey"
      [] OTHER -> "String"

\* Serialize of a struct: one member for each field that is Some.
RECURSIVE struct_to_json(_, _)
struct_to_json(val, struct) ==
    LET names == FieldNames(struct)
        present == { f \in DOMAIN names : IsSome(val[f]) }
        FieldOf(k) == CHOOSE f \in present : names[f] = k
        Enc(f, v) == IF FieldType(struct, f) = "String"
                         THEN v
                         ELSE struct_to_json(v, FieldType(struct, f))
    IN  [k \in { names[f] : f \in present } |->
            Enc(FieldOf(k), Unwrap(val[FieldOf(k)]))]

\* Deserialize of a struct: a field is Some when its member is there.
RECURSIVE struct_from_json(_, _)
struct_from_json(obj, struct) ==
    LET names == FieldNames(struct)
        Dec(f, j) == IF FieldType(struct, f) = "String"
                         THEN j
                         ELSE struct_from_json(j, FieldType(struct, f))
    IN  [f \in DOMAIN names |->
            IF names[f] \in DOMAIN obj THEN Some(Dec(f, obj[names[f]])) ELSE None]

module_to_json(module) == struct_to_json(module, "Module")
module_from_json(obj) == struct_from_json(obj, "Module")

\* A document: what a request or response body holds.
JsonNull == [t |-> "null"]
JsonObject(obj) == [t |-> "object", v |-> obj]
JsonArray(items) == [t |-> "array", v |-> items]

\* serde_json::to_string(&body) for the one request body type, Module.
to_json(module) == JsonObject(module_to_json(module))

\* serde_json::from_slice::<ResponseT>(&body): Ok(value), or Err(Serde) when
\* the document is not of the shape ResponseT expects.
from_json(response_t, doc) ==
    CASE response_t = "Module" ->
            IF doc.t = "object" THEN Ok(module_from_json(doc.v)) ELSE Err(SerdeError)
      [] response_t = "Vec<Module>" ->
            IF doc.t = "array"
                THEN Ok([i \in 1..Len(doc.v) |-> module_from_json(doc.v[i])])
                ELSE Err(SerdeError)
      [] response_t = "()" ->
            IF doc.t = "null" THEN Ok(Unit) ELSE Err(SerdeError)

----------------------------------------------------------------------------
\* The generic client, Client::request::<BodyT, ResponseT>.

IfMatchAny == "If-Match: *"

\* The request Client::request hands to the transport: the body serialized
\* when there is one, the If-Match header set only when add_if_match.
request(method, path, query, body, add_if_match) ==
    [method |-> method,
     path |-> path,
     headers |-> IF add_if_match THEN {IfMatchAny} ELSE {},
     body |-> IF IsSome(body) THEN Some(to_json(Unwrap(body))) ELSE None]

TransportFailure == [failed |-> TRUE]

\* What Client::request resolves to once the transport has answered: the
\* transport's error, an error for a status outside 2xx, Ok(None) for an
\* empty body, otherwise the body deserialized as ResponseT.
request_result(response_t, response) ==
    IF response = TransportFailure THEN Err(HyperError)
    ELSE IF ~(response.status >= 200 /\ response.status < 300) THEN Err(HttpError)
    ELSE IF ~IsSome(response.body) THEN Ok(None)
    ELSE LET value == from_json(response_t, Unwrap(response.body))
         IN  IF IsOk(value) THEN Ok(Some(value.v)) ELSE value

----------------------------------------------------------------------------
\* DeviceClient.  A future is what an operation returns: the calls it made
\* on the generic client (each with the response type it asked for) and the
\* result it has so far, Pending while the one call is outstanding.

FutureFailed(e) == [calls |-> <<>>, result |-> Err(e)]
FutureCall(req, response_t) ==
    [calls |-> << [request |-> req, response_t |-> response_t] >>,
     result |-> Pending]

\* Option::ok_or_else(|| Error::from(ErrorKind::EmptyResponse))
ok_or_else_EmptyResponse(o) ==
    IF IsSome(o) THEN Ok(Unwrap(o)) ELSE Err(EmptyResponse)

ModulesPath(device) == <<"/devices/">> \o device \o <<"/modules">>
ModulePath(device, module) ==
    <<"/devices/">> \o device \o <<"/modules/">> \o module

\* DeviceClient::new
new(id) ==
    LET checked == ensure_not_empty(id)
    IN  IF IsErr(checked) THEN Err(checked.e) ELSE Ok(checked.v)

\* upsert_module sending an update without the caller's authentication.
upsert_module_update_drops_authentication(module_id, authentication, add_if_match) ==
    LET checked == ensure_not_empty(module_id)
        module0 == with_module_id(with_device_id(ModuleDefault, device_id), checked.v)
        module == IF IsSome(authentication) /\ ~add_if_match
                      THEN with_authentication(module0, Unwrap(authentication))
                      ELSE module0
    IN  IF IsErr(checked) THEN FutureFailed(checked.e)
        ELSE FutureCall(request("PUT", ModulePath(device_id, module_id),
                                None, Some(module), add_if_match),
                        "Module")

\* upsert_module refusing to start while another call of the client is
\* outstanding.
upsert_module_not_reentrant(module_id, authentication, add_if_match) ==
    LET checked == ensure_not_empty(module_id)
        module0 == with_module_id(with_device_id(ModuleDefault, device_id), checked.v)
        module == IF IsSome(authentication)
                      THEN with_authentication(module0, Unwrap(authentication))
                      ELSE module0
    IN  IF IsErr(checked) THEN FutureFailed(checked.e)
        ELSE IF \E i \in 1..Len(ops) : ops[i].result = Pending
            THEN FutureFailed(HyperError)
        ELSE FutureCall(request("PUT", ModulePath(device_id, module_id),
                                None, Some(module), add_if_match),
                        "Module")

\* upsert_module sending a placeholder mechanism when the caller gave none.
upsert_module_placeholder_authentication(module_id, authentication, add_if_match) ==
    LET checked == ensure_not_empty(module_id)
        module0 == with_module_id(with_device_id(ModuleDefault, device_id), checked.v)
        module == IF IsSome(authentication)
                      THEN with_authentication(module0, Unwrap(authentication))
                      ELSE with_authentication(module0, AuthMechanismDefault)
    IN  IF IsErr(checked) THEN FutureFailed(checked.e)
        ELSE FutureCall(request("PUT", ModulePath(device_id, module_id),
                                None, Some(module), add_if_match),
                        "Module")

\* DeviceClient::upsert_module, up to the call of Client::request.
upsert_module(module_id, authentication, add_if_match) ==
    LET checked == ensure_not_empty(module_id)
        module0 == with_module_id(with_device_id(ModuleDefault, device_id), checked.v)
        module == IF IsSome(authentication)
                      THEN with_authentication(module0, Unwrap(authentication))
                      ELSE module0
    IN  IF IsErr(checked) THEN FutureFailed(checked.e)
        ELSE FutureCall(request("PUT", ModulePath(device_id, module_id),
                                None, Some(module), add_if_match),
                        "Module")

\* The closure of upsert_module with unwrap_or_default in place of ok_or_else.
upsert_and_then_unwrap_or_default(module) ==
    IF IsSome(module) THEN Ok(Unwrap(module)) ELSE Ok(ModuleDefault)

\* The closure upsert_module chains on the call.
upsert_and_then(module) == ok_or_else_EmptyResponse(module)

\* list_modules with a trailing slash in its path.
list_modules_call_trailing_slash ==
    FutureCall(request("GET", ModulesPath(device_id) \o <<"/">>, None, None, FALSE),
               "Vec<Module>")

\* DeviceClient::list_modules, up to the call of Client::request.
list_modules_call ==
    FutureCall(request("GET", ModulesPath(device_id), None, None, FALSE),
               "Vec<Module>")

\* The closure of list_modules taking an empty list for a missing one.
list_and_then_empty_is_missing(modules) ==
    IF IsSome(modules) /\ Unwrap(modules) # <<>>
        THEN Ok(Unwrap(modules))
        ELSE Err(EmptyResponse)

\* The closure list_modules chains on the call.
list_and_then(modules) == ok_or_else_EmptyResponse(modules)

\* delete_module without the check of its module id.
delete_module_call_unchecked(module_id) ==
    FutureCall(request("DELETE", ModulePath(device_id, module_id), None, None, TRUE),
               "()")

\* DeviceClient::delete_module, up to the call of Client::request.
delete_module_call(module_id) ==
    LET checked == ensure_not_empty(module_id)
    IN  IF IsErr(checked) THEN FutureFailed(checked.e)
        ELSE FutureCall(request("DELETE", ModulePath(device_id, checked.v),
                                None, None, TRUE),
                        "()")

\* The closure of delete_module requiring a body like the other operations.
delete_and_then_requires_body(x) == ok_or_else_EmptyResponse(x)

\* The closure delete_module chains on the call.
delete_and_then(x) == Ok(Unit)

\* The chain with an error of the call handed to the closure as a missing
\* body instead of passed through.
and_then_error_as_missing(op, outcome) ==
    LET o == IF IsErr(outcome) THEN None ELSE outcome.v
    IN  CASE op \in {"create_module", "update_module"} -> upsert_and_then(o)
          [] op = "list_modules" -> list_and_then(o)
          [] op = "delete_module" -> delete_and_then(o)

\* Future::and_then: an error of the call passes through, a success goes
\* through the closure of the operation that made the call.
and_then(op, outcome) ==
    IF IsErr(outcome) THEN outcome
    ELSE CASE op \in {"create_module", "update_module"} -> upsert_and_then(outcome.v)
           [] op = "list_modules" -> list_and_then(outcome.v)
           [] op = "delete_module" -> delete_and_then(outcome.v)

----------------------------------------------------------------------------
\* The server side of the transport.

GenerationId == "g1"
ManagedBy == "iotedge"

ServerModule(module, generation) ==
    module_to_json(
        with_managed_by(
            with_generation_id(
                with_authentication(
                    with_module_id(with_device_id(ModuleDefault, <<"d", "1">>), module),
                    SasAuth),
                generation),
            ManagedBy))

\* The PUT handler of the tests: the module of the request body with the
\* server's generation id and managed-by tag.
Echo(req) ==
    module_to_json(
        with_managed_by(
            with_generation_id(module_from_json(Unwrap(req.body).v), GenerationId),
            ManagedBy))

\* The bodies a server answers a request with: the document the handler of
\* the tests sends, for a list also the empty array, and for a list and a
\* delete a document of another shape than the operation expects.
Bodies(req) ==
    CASE req.method = "PUT" -> { JsonObject(Echo(req)) }
      [] req.method = "GET" ->
            { JsonArray(<<>>),
              JsonArray(<<ServerModule(<<"m", "2">>, "g2"),
                          ServerModule(<<"m", "1">>, "g1")>>),
              JsonNull }
      [] req.method = "DELETE" ->
            { JsonNull, JsonObject(ServerModule(<<"m", "1">>, "g1")) }

Responses(req) ==
    {TransportFailure}
        \cup { [status |-> st, body |-> None] : st \in {200, 500} }
        \cup { [status |-> 200, body |-> Some(b)] : b \in Bodies(req) }

----------------------------------------------------------------------------
\* The state machine.

Init ==
    /\ created = None
    /\ device_id = NoClient
    /\ ops = <<>>
    /\ sent = 0

\* DeviceClient::new(client, id)
New(id) ==
    /\ device_id = NoClient
    /\ created' = Some([id |-> id, result |-> new(id)])
    /\ device_id' = IF IsOk(new(id)) THEN new(id).v ELSE NoClient
    /\ UNCHANGED <<ops, sent>>

\* The caller invokes `op` with `args`; the operation returns `future`.
Invoke(op, args, future) ==
    /\ device_id # NoClient
    /\ Len(ops) < MaxOps
    /\ ops' = Append(ops, [op |-> op, args |-> args, calls |-> future.calls,
                           response |-> None, result |-> future.result])
    /\ sent' = sent + Len(future.calls)
    /\ UNCHANGED <<created, device_id>>

create_module(module_id, authentication) ==
    Invoke("create_module", <<module_id, authentication>>,
           upsert_module(module_id, authentication, FALSE))

\* update_module passing the flag of create_module.
update_module_without_if_match(module_id, authentication) ==
    Invoke("update_module", <<module_id, authentication>>,
           upsert_module(module_id, authentication, FALSE))

update_module(module_id, authentication) ==
    Invoke("update_module", <<module_id, authentication>>,
           upsert_module(module_id, authentication, TRUE))

list_modules ==
    Invoke("list_modules", <<>>, list_modules_call)

delete_module(module_id) ==
    Invoke("delete_module", <<module_id>>, delete_module_call(module_id))

\* The invocations whose call the transport has not answered yet.
Outstanding == { i \in 1..Len(ops) : ops[i].result = Pending }

\* The transport answers the outstanding call of invocation i and the
\* future of the operation resolves.
Complete(i, response) ==
    /\ ops[i].result = Pending
    /\ ops' = [ops EXCEPT
                 ![i].response = Some(response),
                 ![i].result =
                     and_then(ops[i].op,
                              request_result(ops[i].calls[1].response_t, response))]
    /\ UNCHANGED <<created, device_id, sent>>

Next ==
    \/ \E id \in DeviceIds : New(id)
    \/ \E m \in ModuleIds, a \in Authentications : create_module(m, a)
    \/ \E m \in ModuleIds, a \in Authentications : update_module(m, a)
    \/ list_modules
    \/ \E m \in ModuleIds : delete_module(m)
    \/ \E i \in Outstanding : \E r \in Responses(ops[i].calls[1].request) :
            Complete(i, r)

Spec == Init /\ [][Next]_vars

----------------------------------------------------------------------------
\* Vocabulary of the properties.

Invocations == 1..Len(ops)
Called == { i \in Invocations : ops[i].calls # <<>> }
Resolved == { i \in Invocations : ops[i].result # Pending }
Answered == { i \in Invocations : IsSome(ops[i].response) }
Req(i) == ops[i].calls[1].request
Resp(i) == Unwrap(ops[i].response)
TakesModuleId == {"create_module", "update_module", "delete_module"}
Upserts == {"create_module", "update_module"}

\* An id that is the empty string or holds white space only.
OnlyWhiteSpace(s) == \A k \in 1..Len(s) : s[k] \in WhiteSpace

\* The invocations whose module id argument is empty or white space only.
BlankInvocations ==
    { i \in Invocations : ops[i].op \in TakesModuleId /\ OnlyWhiteSpace(ops[i].args[1]) }

\* The transport answered invocation i with a 2xx status.
Status2xx(i) ==
    /\ i \in Answered
    /\ Resp(i) # TransportFailure
    /\ Resp(i).status >= 200 /\ Resp(i).status < 300

\* What the generic client made of the answer to invocation i.
Outcome(i) == request_result(ops[i].calls[1].response_t, Resp(i))

----------------------------------------------------------------------------
\* C1: an empty or white-space-only id fails with ArgumentEmpty and makes no
\* call: DeviceClient::new with such a device id yields the error and no
\* client; create_module, update_module and delete_module with such a module
\* id resolve to the error with no request handed to the transport, so the
\* transport has seen no more requests than there are other invocations.
C1_BlankIdFailsWithoutCall ==
    /\ (IsSome(created) /\ OnlyWhiteSpace(created[1].id)) =>
            /\ created[1].result = Err(ArgumentEmpty)
            /\ device_id = NoClient
            /\ sent = 0
    /\ \A i \in BlankInvocations :
            /\ ops[i].result = Err(ArgumentEmpty)
            /\ ops[i].calls = <<>>
    /\ sent <= Cardinality(Invocations \ BlankInvocations)

\* A delete with a white-space-only id and an upsert with the empty id have
\* both failed and the transport has seen nothing.
C1_Witness ==
    /\ \E i \in BlankInvocations :
            ops[i].op = "delete_module" /\ ops[i].args[1] # <<>>
    /\ \E i \in BlankInvocations :
            ops[i].op \in Upserts /\ ops[i].args[1] = <<>>
    /\ sent = 0

\* C2: a request at the transport carries the If-Match: * header if and only
\* if update_module or delete_module issued it; the requests of
\* create_module and list_modules carry no conditional header at all.
C2_IfMatchOnlyOnUpdateAndDelete ==
    \A i \in Called : \A k \in 1..Len(ops[i].calls) :
        LET headers == ops[i].calls[k].request.headers
        IN  /\ (IfMatchAny \in headers) <=> (ops[i].op \in {"update_module", "delete_module"})
            /\ ops[i].op \in {"create_module", "list_modules"} => headers = {}

\* An update with the header next to a create without it.
C2_Witness ==
    /\ \E i \in Called : ops[i].op = "update_module" /\ IfMatchAny \in Req(i).headers
    /\ \E i \in Called : ops[i].op = "create_module" /\ Req(i).headers = {}

\* C3: create_module and update_module called with the same module id and
\* authentication on the same client send the same method (PUT), path and
\* body; the requests differ only in the conditional header, present for the
\* update and absent for the create.
C3_CreateAndUpdateSameRequest ==
    \A i, j \in Called :
        (/\ ops[i].op = "create_module"
         /\ ops[j].op = "update_module"
         /\ ops[i].args = ops[j].args) =>
            /\ Req(i).method = "PUT" /\ Req(j).method = "PUT"
            /\ Req(i).path = Req(j).path
            /\ Req(i).body = Req(j).body
            /\ IfMatchAny \notin Req(i).headers
            /\ IfMatchAny \in Req(j).headers

\* A create and an update with the same id and a supplied authentication.
C3_Witness ==
    \E i, j \in Called :
        /\ ops[i].op = "create_module"
        /\ ops[j].op = "update_module"
        /\ ops[i].args = ops[j].args
        /\ IsSome(ops[i].args[2])

\* C4: method and path of every request follow the operation table, with
\* the device id of the client and the module id argument as passed.
C4_MethodAndPath ==
    \A i \in Called :
        LET device == <<"/devices/">> \o device_id
        IN  CASE ops[i].op \in Upserts ->
                    /\ Req(i).method = "PUT"
                    /\ Req(i).path = device \o <<"/modules/">> \o ops[i].args[1]
              [] ops[i].op = "delete_module" ->
                    /\ Req(i).method = "DELETE"
                    /\ Req(i).path = device \o <<"/modules/">> \o ops[i].args[1]
              [] ops[i].op = "list_modules" ->
                    /\ Req(i).method = "GET"
                    /\ Req(i).path = device \o <<"/modules">>

\* A list and a delete of a padded module id have reached the transport.
C4_Witness ==
    /\ \E i \in Called : ops[i].op = "list_modules"
    /\ \E i \in Called : ops[i].op = "delete_module" /\ ops[i].args[1] = <<"m", " ">>

\* C5: when the generic client completes the call of create_module,
\* update_module or list_modules successfully, the operation fails with
\* EmptyResponse if and only if the response has no body; with a body it
\* succeeds with exactly the value deserialized from it, which for create and
\* update is the server's Module with its generation id and managed-by.
C5_EmptyResponseIffNoBody ==
    \A i \in Answered :
        (ops[i].op \in Upserts \cup {"list_modules"} /\ Status2xx(i) /\ IsOk(Outcome(i))) =>
            LET body == Resp(i).body
            IN  /\ (ops[i].result = Err(EmptyResponse)) <=> (body = None)
                /\ (body # None /\ ops[i].op \in Upserts) =>
                        ops[i].result = Ok(module_from_json(Unwrap(body).v))
                /\ (body # None /\ ops[i].op = "list_modules") =>
                        ops[i].result =
                            Ok([k \in 1..Len(Unwrap(body).v) |->
                                    module_from_json(Unwrap(body).v[k])])

\* A create answered 200 without a body next to an update answered with the
\* server's Module, generation id and managed-by set.
C5_Witness ==
    /\ \E i \in Answered :
            /\ ops[i].op = "create_module"
            /\ Status2xx(i)
            /\ Resp(i).body = None
    /\ \E i \in Answered :
            /\ ops[i].op = "update_module"
            /\ IsOk(ops[i].result)
            /\ ops[i].result.v.generation_id = Some(GenerationId)
            /\ ops[i].result.v.managed_by = Some(ManagedBy)

\* C6: list_modules answered 200 with a JSON array of N >= 0 modules
\* succeeds with a sequence of length N whose k-th element is the k-th
\* element of the array; the empty array yields the empty sequence, not
\* EmptyResponse.
C6_ListKeepsLengthAndOrder ==
    \A i \in Answered :
        (/\ ops[i].op = "list_modules"
         /\ Status2xx(i)
         /\ IsSome(Resp(i).body)
         /\ Unwrap(Resp(i).body).t = "array") =>
            LET array == Unwrap(Resp(i).body).v
            IN  /\ IsOk(ops[i].result)
                /\ Len(ops[i].result.v) = Len(array)
                /\ \A k \in 1..Len(array) :
                        ops[i].result.v[k] = module_from_json(array[k])

\* One list answered with the empty array and one with two modules.
C6_Witness ==
    /\ \E i \in Answered :
            /\ ops[i].op = "list_modules"
            /\ Status2xx(i)
            /\ Resp(i).body = Some(JsonArray(<<>>))
    /\ \E i \in Answered :
            /\ ops[i].op = "list_modules"
            /\ IsOk(ops[i].result)
            /\ Len(ops[i].result.v) = 2
            /\ ops[i].result.v[1].module_id = Some(<<"m", "2">>)

C8_State ==
    /\ \A i \in Invocations :
            /\ Len(ops[i].calls) <= 1
            /\ Len(ops[i].calls) = IF i \in BlankInvocations THEN 0 ELSE 1
            /\ (i \notin Called) => i \in Resolved
            /\ (i \in Resolved /\ i \in Called) => i \in Answered
            /\ (i \in Answered /\ IsErr(Outcome(i))) => ops[i].result = Outcome(i)
    /\ sent = Cardinality(Called)

\* The step part of C8: no step adds a call to an invocation already made,
\* a resolved invocation keeps its result, and the transport receives a
\* request only when an operation is invoked, one at most.
C8_Step ==
    /\ \A i \in Invocations :
            /\ ops'[i].calls = ops[i].calls
            /\ (ops[i].result # Pending) => ops'[i] = ops[i]
    /\ sent' - sent = IF Len(ops') > Len(ops) THEN Len(ops'[Len(ops')].calls) ELSE 0
    /\ sent' - sent <= 1

\* C8: every invocation hands at most one request to the generic client, one
\* when validation passes and none when it fails, and resolves once; when
\* the call fails the operation fails with the same error and no further
\* request is issued.
C8_OneCallOneOutcome == []C8_State /\ [][C8_Step]_vars

\* A failed call (transport failure) surfaced as the error of an update,
\* with exactly one request sent, beside an invocation that failed
\* validation.
C8_Witness ==
    /\ \E i \in Answered :
            /\ ops[i].op = "update_module"
            /\ Resp(i) = TransportFailure
            /\ ops[i].result = Err(HyperError)
    /\ BlankInvocations # {}
    /\ sent = 1

\* The state part of C9: what an invocation sends is determined by its
\* operation and arguments, and what it returns by those and its response.
C9_State ==
    \A i, j \in Invocations :
        (ops[i].op = ops[j].op /\ ops[i].args = ops[j].args) =>
            /\ ops[i].calls = ops[j].calls
            /\ (i \in Resolved /\ j \in Resolved /\ ops[i].response = ops[j].response) =>
                    ops[i].result = ops[j].result

C10_UpsertBody ==
    \A i \in Called :
        ops[i].op \in Upserts =>
            /\ IsSome(Req(i).body)
            /\ LET module == module_from_json(Unwrap(Req(i).body).v)
               IN  /\ module.device_id = Some(device_id)
                   /\ module.module_id = Some(ops[i].args[1])
                   /\ module.authentication = ops[i].args[2]
                   /\ module.generation_id = None
                   /\ module.managed_by = None

\* A create without authentication and an update with one are at the
\* transport.
C10_Witness ==
    /\ \E i \in Called : ops[i].op = "create_module" /\ ops[i].args[2] = None
    /\ \E i \in Called : ops[i].op = "update_module" /\ ops[i].args[2] = Some(SasAuth)

====
